---- MODULE Spec2Model ----
(***************************************************************************)
(* Model of the constraint-propagation core of rust-constraint:            *)
(*   src/src/domain.rs      Domain (reversible value set)                  *)
(*   src/src/constraint.rs  Constraint protocol and built-in constraints   *)
(* Vec indices are 0-based as in the source; TLA+ sequences are 1-based,   *)
(* so element i of a Vec is s[i + 1].                                      *)
(***************************************************************************)
EXTENDS Integers, Sequences, FiniteSets, TLC

VARIABLES
    dom,          \* SpecDomain: the Domain under test
    snaps,        \* SpecDomain: history, one snapshot per open checkpoint
    dlast,        \* SpecDomain: history, the last Domain operation
    dpanic,       \* SpecDomain: TRUE once an operation has panicked
    domains,      \* HashMap<&Variable, &mut Domain>
    assignments,  \* HashMap<&Variable, i32>
    constraints,  \* Vec<&ConstraintVariable>: the global registry
    vconstraints, \* HashMap<&Variable, Vec<&mut ConstraintVariable>>
    pre,          \* history: domains, assignments and registry before the last operation
    op,           \* history: the last operation and its arguments
    result,       \* outcome of the last operation
    trace,        \* history: what the last call evaluated on its way
    search        \* the search driver: its position, frames and solutions

vars == <<dom, snaps, dlast, dpanic, domains, assignments, constraints,
          vconstraints, pre, op, result, trace, search>>

domVars == <<dom, snaps, dlast, dpanic>>
engineVars == <<domains, assignments, constraints, vconstraints, pre, op, result,
               trace, search>>

-----------------------------------------------------------------------------
(* Bounds *)

\* live values of a domain are drawn from 1..MaxVal (and NegValues below)
MaxVal == 2
\* largest number of nested checkpoints explored in SpecDomain
MaxDepth == 2

-----------------------------------------------------------------------------
(* Vec helpers *)

Range(s) == {s[i] : i \in 1..Len(s)}

Contains(s, x) == \E i \in 1..Len(s) : s[i] = x

\* iter().position(|x| x == value): 0-based index of the first match, -1 for None
Position(s, x) ==
    IF Contains(s, x)
    THEN (CHOOSE i \in 1..Len(s) : s[i] = x /\ \A j \in 1..(i - 1) : s[j] # x) - 1
    ELSE -1

\* Vec::remove(index) for an index in range (0-based); the caller tests the panic
RemoveAt(s, index) ==
    [j \in 1..(Len(s) - 1) |-> IF j <= index THEN s[j] ELSE s[j + 1]]

\* all duplicate-free sequences over the set S
RECURSIVE Perms(_)
Perms(S) ==
    IF S = {} THEN {<<>>}
    ELSE UNION {{<<x>> \o p : p \in Perms(S \ {x})} : x \in S}

DupFreeSeqs(S) == UNION {Perms(T) : T \in SUBSET S}

-----------------------------------------------------------------------------
(* Domain, src/src/domain.rs *)

NewDomain(set) == [values |-> set, hidden |-> <<>>, states |-> <<>>]

ResetState(d) ==
    [values |-> d.values \o d.hidden, hidden |-> <<>>, states |-> <<>>]

PushState(d) == [d EXCEPT !.states = Append(d.states, Len(d.values))]

\* for i in bound..self.hidden.len() { self.hidden.remove(i); }
\* the range is evaluated once; Vec::remove panics when i >= len
RECURSIVE PopRemoveLoop(_, _, _)
PopRemoveLoop(hidden, i, end) ==
    IF i >= end THEN [hidden |-> hidden, panic |-> FALSE]
    ELSE IF i >= Len(hidden) THEN [hidden |-> hidden, panic |-> TRUE]
    ELSE PopRemoveLoop(RemoveAt(hidden, i), i + 1, end)

PopState(d) ==
    IF Len(d.states) = 0 THEN [d |-> d, panic |-> FALSE]
    ELSE
      LET size == d.states[Len(d.states)]
          popped == [d EXCEPT !.states = SubSeq(d.states, 1, Len(d.states) - 1)]
      IN
      \* usize subtraction: overflow panics (debug) or wraps to a bound past
      \* the end of hidden, whose slice panics (release)
      IF size < Len(d.values) THEN [d |-> popped, panic |-> TRUE]
      ELSE
        LET diff == size - Len(d.values) IN
        IF diff > 0 THEN
          IF Len(d.hidden) < diff THEN [d |-> popped, panic |-> TRUE]
          ELSE
            LET bound == Len(d.hidden) - diff
                extended == d.values \o SubSeq(d.hidden, bound + 1, Len(d.hidden))
                loop == PopRemoveLoop(d.hidden, bound, Len(d.hidden))
            IN [d |-> [values |-> extended, hidden |-> loop.hidden,
                       states |-> popped.states],
                panic |-> loop.panic]
        ELSE [d |-> popped, panic |-> FALSE]

\* position(..).unwrap() panics when the value is not live
HideValuePanics(d, value) == Position(d.values, value) = -1

HideValue(d, value) ==
    [d EXCEPT !.values = RemoveAt(d.values, Position(d.values, value)),
              !.hidden = Append(d.hidden, value)]

-----------------------------------------------------------------------------
(* Variables, results, constraint values *)

\* Variable identities (Variable::new(name)); equality is by name
Vars == {"X", "Y", "Z"}

\* Variable::unassigned(), the static sentinel
UNASSIGNED == "UNASSIGNED"

\* i32::MIN, the "nothing seen yet" marker of AllEqualConstraint::call
I32_MIN == (-2147483647) - 1

\* Result<bool, ConstraintError>
Ok(b) == IF b THEN "OkTrue" ELSE "OkFalse"
Err == "Err"

\* Option<Vec<i32>> is a sequence of length 0 (None) or 1 (Some(vec))
None == <<>>
Some(x) == <<x>>
IsSome(o) == Len(o) = 1
Unwrap(o) == o[1]

\* One record shape for every constraint struct; a struct uses its own fields
\* and leaves the others at these defaults.
NoConstraint ==
    [kind |-> "", function |-> "", assigned |-> FALSE,
     max_value |-> 0, exact_value |-> 0, min_value |-> 0, multipliers |-> None,
     set |-> {}, n |-> 0, exact |-> FALSE]

FunctionConstraint(function, assigned) ==
    [NoConstraint EXCEPT !.kind = "Function", !.function = function,
                         !.assigned = assigned]
AllDifferentConstraint == [NoConstraint EXCEPT !.kind = "AllDifferent"]
AllEqualConstraint == [NoConstraint EXCEPT !.kind = "AllEqual"]
MaxSumConstraint(max_value, multipliers) ==
    [NoConstraint EXCEPT !.kind = "MaxSum", !.max_value = max_value,
                         !.multipliers = multipliers]
ExactSumConstraint(exact_value, multipliers) ==
    [NoConstraint EXCEPT !.kind = "ExactSum", !.exact_value = exact_value,
                         !.multipliers = multipliers]
MinSumConstraint(min_value, multipliers) ==
    [NoConstraint EXCEPT !.kind = "MinSum", !.min_value = min_value,
                         !.multipliers = multipliers]
InSetConstraint(set) == [NoConstraint EXCEPT !.kind = "InSet", !.set = set]
NotInSetConstraint(set) == [NoConstraint EXCEPT !.kind = "NotInSet", !.set = set]
SomeInSetConstraint(set, n, exact) ==
    [NoConstraint EXCEPT !.kind = "SomeInSet", !.set = set, !.n = n,
                         !.exact = exact]
SomeNotInSetConstraint(set, n, exact) ==
    [NoConstraint EXCEPT !.kind = "SomeNotInSet", !.set = set, !.n = n,
                         !.exact = exact]

\* what a call left behind for an observer: evals, the evaluations of the
\* user predicate (self.function)(parms) in order, each with its tuple, its
\* result and the forward_check trial (variable, value) it was made for
\* (<<>> when made by the outer call); trials, the calls forward_check made,
\* each with the variable and value it inserted, the mapping it passed and
\* the result it got
NoTrace == [evals |-> <<>>, trials |-> <<>>]

\* what call returns: the Result and the two maps it was handed, as it left them
CallResult(res, doms, asg) ==
    [res |-> res, domains |-> doms, assignments |-> asg, trace |-> NoTrace]

\* for value in to_hides { domain.hide_value(value); }
RECURSIVE HideAll(_, _)
HideAll(d, to_hides) ==
    IF to_hides = <<>> THEN d
    ELSE HideAll(HideValue(d, Head(to_hides)), Tail(to_hides))

\* the live values that satisfy Test, in domain order
Filter(s, Test(_)) == SelectSeq(s, Test)

-----------------------------------------------------------------------------
(* AllDifferentConstraint::call, src/src/constraint.rs 237-270 *)

\* first loop: dup is TRUE when an assigned value was already in seen
RECURSIVE AllDifferentSeen(_, _, _, _)
AllDifferentSeen(variables, i, asg, seen) ==
    IF i > Len(variables) THEN [dup |-> FALSE, seen |-> seen]
    ELSE IF variables[i] \in DOMAIN asg
         THEN IF asg[variables[i]] \in seen
              THEN [dup |-> TRUE, seen |-> seen]
              ELSE AllDifferentSeen(variables, i + 1, asg,
                                    seen \cup {asg[variables[i]]})
         ELSE AllDifferentSeen(variables, i + 1, asg, seen)

\* for &value in seen.keys(): keys is one iteration order of the HashMap
RECURSIVE AllDifferentHide(_, _, _)
AllDifferentHide(d, keys, k) ==
    IF k > Len(keys) THEN [d |-> d, empty |-> FALSE]
    ELSE IF Contains(d.values, keys[k])
         THEN LET hid == HideValue(d, keys[k]) IN
              IF Len(hid.values) = 0 THEN [d |-> hid, empty |-> TRUE]
              ELSE AllDifferentHide(hid, keys, k + 1)
         ELSE AllDifferentHide(d, keys, k + 1)

RECURSIVE AllDifferentPrune(_, _, _, _, _)
AllDifferentPrune(variables, i, doms, asg, keys) ==
    IF i > Len(variables) THEN CallResult(Ok(TRUE), doms, asg)
    ELSE LET variable == variables[i] IN
         IF variable \notin DOMAIN asg /\ variable \in DOMAIN doms
         THEN LET r == AllDifferentHide(doms[variable], keys, 1)
                  doms2 == [doms EXCEPT ![variable] = r.d]
              IN IF r.empty THEN CallResult(Ok(FALSE), doms2, asg)
                 ELSE AllDifferentPrune(variables, i + 1, doms2, asg, keys)
         ELSE AllDifferentPrune(variables, i + 1, doms, asg, keys)

\* AllDifferentCall without the check for a repeated assigned value
AllDifferentCallMutant(c, variables, doms, asg, forward_check, keys) ==
    IF forward_check
    THEN AllDifferentPrune(variables, 1, doms, asg, keys)
    ELSE CallResult(Ok(TRUE), doms, asg)

\* keys: the order in which seen.keys() yields the seen values (a HashMap
\* iterates in an unspecified order)
AllDifferentCall(c, variables, doms, asg, forward_check, keys) ==
    LET s == AllDifferentSeen(variables, 1, asg, {}) IN
    IF s.dup THEN CallResult(Ok(FALSE), doms, asg)
    ELSE IF forward_check
         THEN AllDifferentPrune(variables, 1, doms, asg, keys)
         ELSE CallResult(Ok(TRUE), doms, asg)

\* the values seen.keys() yields for this call
AllDifferentKeys(variables, asg) == AllDifferentSeen(variables, 1, asg, {}).seen

-----------------------------------------------------------------------------
(* AllEqualConstraint::call, src/src/constraint.rs 284-326 *)

\* first loop: differ is TRUE when an assigned value differs from single_value
RECURSIVE AllEqualSingle(_, _, _, _)
AllEqualSingle(variables, i, asg, single_value) ==
    IF i > Len(variables) THEN [differ |-> FALSE, single_value |-> single_value]
    ELSE IF variables[i] \in DOMAIN asg
         THEN LET value == asg[variables[i]] IN
              IF single_value = I32_MIN
              THEN AllEqualSingle(variables, i + 1, asg, value)
              ELSE IF value # single_value
                   THEN [differ |-> TRUE, single_value |-> single_value]
                   ELSE AllEqualSingle(variables, i + 1, asg, single_value)
         ELSE AllEqualSingle(variables, i + 1, asg, single_value)

RECURSIVE AllEqualPrune(_, _, _, _, _)
AllEqualPrune(variables, i, doms, asg, single_value) ==
    IF i > Len(variables) THEN CallResult(Ok(TRUE), doms, asg)
    ELSE LET variable == variables[i] IN
         IF variable \notin DOMAIN asg /\ variable \in DOMAIN doms
         THEN IF ~Contains(doms[variable].values, single_value)
              THEN CallResult(Ok(FALSE), doms, asg)
              ELSE LET Other(value) == value # single_value
                       to_hides == Filter(doms[variable].values, Other)
                   IN AllEqualPrune(variables, i + 1,
                          [doms EXCEPT ![variable] = HideAll(@, to_hides)],
                          asg, single_value)
         ELSE AllEqualPrune(variables, i + 1, doms, asg, single_value)

AllEqualCall(c, variables, doms, asg, forward_check) ==
    LET s == AllEqualSingle(variables, 1, asg, I32_MIN) IN
    IF s.differ THEN CallResult(Ok(FALSE), doms, asg)
    ELSE IF forward_check /\ s.single_value # I32_MIN
         THEN AllEqualPrune(variables, 1, doms, asg, s.single_value)
         ELSE CallResult(Ok(TRUE), doms, asg)

-----------------------------------------------------------------------------
(* Bounded-sum family, src/src/constraint.rs 346-420, 485-574, 641-667 *)

Min(a, b) == IF a < b THEN a ELSE b

\* variables.iter().zip(multipliers): pairs <<variable, multiplier>>, as long
\* as the shorter of the two.  Without multipliers the source runs the same
\* loops on the bare values, which is the multiplier 1.
Pairs(variables, multipliers) ==
    IF IsSome(multipliers)
    THEN [i \in 1..Min(Len(variables), Len(Unwrap(multipliers))) |->
             <<variables[i], Unwrap(multipliers)[i]>>]
    ELSE [i \in 1..Len(variables) |-> <<variables[i], 1>>]

\* sum += assignments[variable] * multiplier, over the assigned variables
RECURSIVE AssignedSum(_, _, _)
AssignedSum(pairs, i, asg) ==
    IF i > Len(pairs) THEN 0
    ELSE (IF pairs[i][1] \in DOMAIN asg THEN asg[pairs[i][1]] * pairs[i][2] ELSE 0)
         + AssignedSum(pairs, i + 1, asg)

\* the values of d with sum + value * multiplier > limit, in domain order
OverLimit(d, sum, multiplier, limit) ==
    LET Over(value) == sum + value * multiplier > limit
    IN Filter(d.values, Over)

RECURSIVE MaxSumPrune(_, _, _, _, _, _)
MaxSumPrune(pairs, i, doms, asg, sum, max_sum) ==
    IF i > Len(pairs) THEN CallResult(Ok(TRUE), doms, asg)
    ELSE LET variable == pairs[i][1]
             multiplier == pairs[i][2]
         IN IF variable \notin DOMAIN asg
            THEN IF variable \in DOMAIN doms
                 THEN MaxSumPrune(pairs, i + 1,
                          [doms EXCEPT ![variable] =
                              HideAll(@, OverLimit(@, sum, multiplier, max_sum))],
                          asg, sum, max_sum)
                 ELSE CallResult(Ok(FALSE), doms, asg)
            ELSE MaxSumPrune(pairs, i + 1, doms, asg, sum, max_sum)

MaxSumCall(c, variables, doms, asg, forward_check) ==
    LET max_sum == c.max_value
        pairs == Pairs(variables, c.multipliers)
        sum == AssignedSum(pairs, 1, asg)
    IN IF sum > max_sum THEN CallResult(Ok(FALSE), doms, asg)
       ELSE IF forward_check
            THEN MaxSumPrune(pairs, 1, doms, asg, sum, max_sum)
            ELSE CallResult(Ok(TRUE), doms, asg)

\* empty is TRUE when the loop returned Ok(false) on an emptied domain
RECURSIVE ExactSumPrune(_, _, _, _, _, _)
ExactSumPrune(pairs, i, doms, asg, sum, exact_sum) ==
    IF i > Len(pairs) THEN [domains |-> doms, empty |-> FALSE]
    ELSE LET variable == pairs[i][1]
             multiplier == pairs[i][2]
         IN IF variable \notin DOMAIN asg /\ variable \in DOMAIN doms
            THEN LET hid == HideAll(doms[variable],
                                    OverLimit(doms[variable], sum, multiplier, exact_sum))
                     doms2 == [doms EXCEPT ![variable] = hid]
                 IN IF Len(hid.values) = 0
                    THEN [domains |-> doms2, empty |-> TRUE]
                    ELSE ExactSumPrune(pairs, i + 1, doms2, asg, sum, exact_sum)
            ELSE ExactSumPrune(pairs, i + 1, doms, asg, sum, exact_sum)

\* ExactSumCall with the verdict of MaxSum on a full assignment (sum <= target)
ExactSumCallMutant(c, variables, doms, asg, forward_check) ==
    LET exact_sum == c.exact_value
        pairs == Pairs(variables, c.multipliers)
        sum == AssignedSum(pairs, 1, asg)
        missing == \E i \in 1..Len(pairs) : pairs[i][1] \notin DOMAIN asg
    IN IF sum > exact_sum THEN CallResult(Ok(FALSE), doms, asg)
       ELSE IF forward_check /\ missing
            THEN LET r == ExactSumPrune(pairs, 1, doms, asg, sum, exact_sum)
                 IN IF r.empty THEN CallResult(Ok(FALSE), r.domains, asg)
                    ELSE CallResult(Ok(sum <= exact_sum), r.domains, asg)
            ELSE CallResult(Ok(sum <= exact_sum), doms, asg)

ExactSumCall(c, variables, doms, asg, forward_check) ==
    LET exact_sum == c.exact_value
        pairs == Pairs(variables, c.multipliers)
        sum == AssignedSum(pairs, 1, asg)
        missing == \E i \in 1..Len(pairs) : pairs[i][1] \notin DOMAIN asg
        Verdict(doms2) ==
            IF missing THEN CallResult(Ok(sum <= exact_sum), doms2, asg)
            ELSE CallResult(Ok(sum = exact_sum), doms2, asg)
    IN IF sum > exact_sum THEN CallResult(Ok(FALSE), doms, asg)
       ELSE IF forward_check /\ missing
            THEN LET r == ExactSumPrune(pairs, 1, doms, asg, sum, exact_sum)
                 IN IF r.empty THEN CallResult(Ok(FALSE), r.domains, asg)
                    ELSE Verdict(r.domains)
            ELSE Verdict(doms)

\* MinSumCall without the early return on an unassigned variable: the bound
\* is tested on the sum of the assigned values
MinSumCallMutant(c, variables, doms, asg, forward_check) ==
    LET min_sum == c.min_value
        sum == AssignedSum(Pairs(variables, c.multipliers), 1, asg)
    IN CallResult(Ok(sum >= min_sum), doms, asg)

MinSumCall(c, variables, doms, asg, forward_check) ==
    IF \E i \in 1..Len(variables) : variables[i] \notin DOMAIN asg
    THEN CallResult(Ok(TRUE), doms, asg)
    ELSE LET min_sum == c.min_value
             sum == AssignedSum(Pairs(variables, c.multipliers), 1, asg)
         IN CallResult(Ok(sum >= min_sum), doms, asg)

-----------------------------------------------------------------------------
(* Set-membership family, src/src/constraint.rs 685-692, 743-750, 806-867, 889-950 *)

\* InSetCall answering "violated" instead of the error
InSetCallMutant(c, variables, doms, asg, forward_check) ==
    CallResult(Ok(FALSE), doms, asg)

InSetCall(c, variables, doms, asg, forward_check) == CallResult(Err, doms, asg)

NotInSetCall(c, variables, doms, asg, forward_check) == CallResult(Err, doms, asg)

\* number of variables of the list without an assignment
Missing(variables, asg) ==
    Cardinality({i \in 1..Len(variables) : variables[i] \notin DOMAIN asg})

\* found for SomeInSet (member = TRUE) and SomeNotInSet (member = FALSE)
Found(variables, asg, set, member) ==
    Cardinality({i \in 1..Len(variables) :
                    /\ variables[i] \in DOMAIN asg
                    /\ (asg[variables[i]] \in set) = member})

\* the forcing loop: hide every value whose membership in set is not member
RECURSIVE SomeSetPrune(_, _, _, _, _, _)
SomeSetPrune(variables, i, doms, asg, set, member) ==
    IF i > Len(variables) THEN CallResult(Ok(TRUE), doms, asg)
    ELSE LET variable == variables[i] IN
         IF variable \notin DOMAIN asg
         THEN IF variable \in DOMAIN doms
              THEN LET Wrong(value) == (value \in set) # member
                       to_hides == Filter(doms[variable].values, Wrong)
                   IN SomeSetPrune(variables, i + 1,
                          [doms EXCEPT ![variable] = HideAll(@, to_hides)],
                          asg, set, member)
              ELSE CallResult(Ok(FALSE), doms, asg)
         ELSE SomeSetPrune(variables, i + 1, doms, asg, set, member)

\* SomeSetCall forcing whenever forward_check is set, without the test
\* n - found == missing
SomeSetCallMutant(c, variables, doms, asg, forward_check, member) ==
    LET missing == Missing(variables, asg)
        found == Found(variables, asg, c.set, member)
    IN IF missing # 0
       THEN IF c.exact /\ ~(found <= c.n /\ c.n <= missing + found)
            THEN CallResult(Ok(FALSE), doms, asg)
            ELSE IF ~c.exact /\ c.n > missing + found
            THEN CallResult(Ok(FALSE), doms, asg)
            ELSE IF forward_check
            THEN SomeSetPrune(variables, 1, doms, asg, c.set, member)
            ELSE CallResult(Ok(TRUE), doms, asg)
       ELSE IF c.exact /\ found # c.n THEN CallResult(Ok(FALSE), doms, asg)
            ELSE IF ~c.exact /\ found < c.n THEN CallResult(Ok(FALSE), doms, asg)
            ELSE CallResult(Ok(TRUE), doms, asg)

\* the body shared, token for token, by SomeInSetConstraint::call and
\* SomeNotInSetConstraint::call, which differ only in the membership test
SomeSetCall(c, variables, doms, asg, forward_check, member) ==
    LET missing == Missing(variables, asg)
        found == Found(variables, asg, c.set, member)
    IN IF missing # 0
       THEN IF c.exact /\ ~(found <= c.n /\ c.n <= missing + found)
            THEN CallResult(Ok(FALSE), doms, asg)
            ELSE IF ~c.exact /\ c.n > missing + found
            THEN CallResult(Ok(FALSE), doms, asg)
            ELSE IF forward_check /\ c.n - found = missing
            THEN SomeSetPrune(variables, 1, doms, asg, c.set, member)
            ELSE CallResult(Ok(TRUE), doms, asg)
       ELSE IF c.exact /\ found # c.n THEN CallResult(Ok(FALSE), doms, asg)
            ELSE IF ~c.exact /\ found < c.n THEN CallResult(Ok(FALSE), doms, asg)
            ELSE CallResult(Ok(TRUE), doms, asg)

SomeInSetCall(c, variables, doms, asg, forward_check) ==
    SomeSetCall(c, variables, doms, asg, forward_check, TRUE)

SomeNotInSetCall(c, variables, doms, asg, forward_check) ==
    SomeSetCall(c, variables, doms, asg, forward_check, FALSE)

-----------------------------------------------------------------------------
(* Function-backed constraint and the forward-check helper,                *)
(* src/src/constraint.rs 112-168, 197-223                                  *)

\* HashMap::insert and HashMap::remove
Insert(map, key, value) ==
    [k \in DOMAIN map \cup {key} |-> IF k = key THEN value ELSE map[k]]
Remove(map, key) == [k \in DOMAIN map \ {key} |-> map[k]]

RECURSIVE SeqSum(_)
SeqSum(s) == IF s = <<>> THEN 0 ELSE Head(s) + SeqSum(Tail(s))

\* The user predicates F: Fn(Vec<i32>) -> Result<bool, ConstraintError> the
\* model hands to FunctionConstraint::new:
\*   ascending    Ok(the tuple is strictly increasing)
\*   checked_sum  Err on a tuple holding a negative value, else Ok(sum <= 2)
Functions == {"ascending", "checked_sum"}

ApplyFunction(function, parms) ==
    IF function = "ascending"
    THEN Ok(\A i \in 1..(Len(parms) - 1) : parms[i] < parms[i + 1])
    ELSE IF \E i \in 1..Len(parms) : parms[i] < 0
         THEN Err
         ELSE Ok(SeqSum(parms) <= 2)

RECURSIVE Call(_, _, _, _, _, _)

\* first loop of forward_check: the variable it takes for the lone
\* unassigned one, and whether it met a second candidate
RECURSIVE ForwardCheckScan(_, _, _, _, _)
ForwardCheckScan(variables, i, asg, unassigned_variable, unassigned) ==
    IF i > Len(variables)
    THEN [unassigned_variable |-> unassigned_variable, flag |-> FALSE]
    ELSE IF variables[i] \in DOMAIN asg
         THEN IF unassigned_variable = unassigned
              THEN ForwardCheckScan(variables, i + 1, asg, variables[i], unassigned)
              ELSE [unassigned_variable |-> unassigned_variable, flag |-> TRUE]
         ELSE ForwardCheckScan(variables, i + 1, asg, unassigned_variable, unassigned)

\* for value in values { assignments.insert(..); res = self.call(.., false); .. }
\* the trace of one trial: the call made, and the predicate evaluations of
\* that call marked with the trial they belong to
TrialTrace(tr, unassigned_variable, value, asg, r) ==
    [evals |-> tr.evals \o
                  [i \in 1..Len(r.trace.evals) |->
                      [r.trace.evals[i] EXCEPT !.trial = <<unassigned_variable, value>>]],
     trials |-> Append(tr.trials,
                       [variable |-> unassigned_variable, value |-> value,
                        assignments |-> asg, res |-> r.res])]

RECURSIVE ForwardCheckTrials(_, _, _, _, _, _, _, _, _)
ForwardCheckTrials(c, variables, doms, asg, unassigned_variable, values, k, values_to_hide, tr) ==
    IF k > Len(values)
    THEN [domains |-> doms, assignments |-> asg, values_to_hide |-> values_to_hide,
          trace |-> tr]
    ELSE LET trial == Insert(asg, unassigned_variable, values[k])
             r == Call(c, variables, doms, trial, FALSE, <<>>)
         IN ForwardCheckTrials(c, variables, r.domains, r.assignments,
                unassigned_variable, values, k + 1,
                IF r.res = Ok(FALSE) THEN Append(values_to_hide, values[k])
                ELSE values_to_hide,
                TrialTrace(tr, unassigned_variable, values[k], trial, r))

ForwardCheck(c, variables, doms, asg, unassigned) ==
    LET scan == ForwardCheckScan(variables, 1, asg, unassigned, unassigned)
        unassigned_variable == scan.unassigned_variable
    IN IF ~scan.flag /\ unassigned_variable # unassigned
       THEN IF unassigned_variable \in DOMAIN doms
            THEN LET t == ForwardCheckTrials(c, variables, doms, asg,
                              unassigned_variable,
                              doms[unassigned_variable].values, 1, <<>>, NoTrace)
                 IN [ret |-> TRUE,
                     domains |-> [t.domains EXCEPT ![unassigned_variable] =
                                     HideAll(@, t.values_to_hide)],
                     assignments |-> Remove(t.assignments, unassigned_variable),
                     trace |-> t.trace]
            ELSE [ret |-> FALSE, domains |-> doms, assignments |-> asg,
                  trace |-> NoTrace]
       ELSE [ret |-> TRUE, domains |-> doms, assignments |-> asg, trace |-> NoTrace]

\* parms: the assigned values, in variable-list order
RECURSIVE Parms(_, _, _)
Parms(variables, i, asg) ==
    IF i > Len(variables) THEN <<>>
    ELSE (IF variables[i] \in DOMAIN asg THEN <<asg[variables[i]]>> ELSE <<>>)
         \o Parms(variables, i + 1, asg)

\* a CallResult that carries the trace of the call
Traced(res, doms, asg, evals, trials) ==
    [res |-> res, domains |-> doms, assignments |-> asg,
     trace |-> [evals |-> evals, trials |-> trials]]

FunctionCallMutant(c, variables, doms, asg, forward_check) ==
    LET applied == ApplyFunction(c.function, Parms(variables, 1, asg))
    IN [res |-> applied, domains |-> doms, assignments |-> asg,
        trace |-> [evals |-> <<[parms |-> Parms(variables, 1, asg),
                                res |-> applied, trial |-> <<>>]>>,
                   trials |-> <<>>]]

FunctionCall(c, variables, doms, asg, forward_check) ==
    LET parms == Parms(variables, 1, asg)
        missing == Missing(variables, asg)
        applied == ApplyFunction(c.function, parms)
        eval == <<[parms |-> parms, res |-> applied, trial |-> <<>>]>>
    IN IF missing # 0
       THEN IF ~c.assigned /\ applied = Err
            THEN Traced(Err, doms, asg, eval, <<>>)
            ELSE IF ~(c.assigned \/ applied = Ok(TRUE))
            THEN Traced(Ok(FALSE), doms, asg, eval, <<>>)
            ELSE IF ~forward_check \/ missing # 1
            THEN Traced(Ok(TRUE), doms, asg, IF c.assigned THEN <<>> ELSE eval, <<>>)
            ELSE LET f == ForwardCheck(c, variables, doms, asg, UNASSIGNED)
                 IN Traced(Ok(f.ret), f.domains, f.assignments,
                           (IF c.assigned THEN <<>> ELSE eval) \o f.trace.evals,
                           f.trace.trials)
       ELSE Traced(applied, doms, asg, eval, <<>>)

\* dynamic dispatch of Constraint::call on the constraint's type
Call(c, variables, doms, asg, forward_check, keys) ==
    CASE c.kind = "Function" -> FunctionCall(c, variables, doms, asg, forward_check)
      [] c.kind = "AllDifferent" ->
            AllDifferentCall(c, variables, doms, asg, forward_check, keys)
      [] c.kind = "AllEqual" -> AllEqualCall(c, variables, doms, asg, forward_check)
      [] c.kind = "MaxSum" -> MaxSumCall(c, variables, doms, asg, forward_check)
      [] c.kind = "ExactSum" -> ExactSumCall(c, variables, doms, asg, forward_check)
      [] c.kind = "MinSum" -> MinSumCall(c, variables, doms, asg, forward_check)
      [] c.kind = "InSet" -> InSetCall(c, variables, doms, asg, forward_check)
      [] c.kind = "NotInSet" -> NotInSetCall(c, variables, doms, asg, forward_check)
      [] c.kind = "SomeInSet" -> SomeInSetCall(c, variables, doms, asg, forward_check)
      [] c.kind = "SomeNotInSet" ->
            SomeNotInSetCall(c, variables, doms, asg, forward_check)

-----------------------------------------------------------------------------
(* Preprocessing, src/src/constraint.rs 58-110, 422-465, 576-621, 694-725, *)
(* 752-784                                                                 *)

\* ConstraintVariable::new(constraint, variables)
ConstraintVariable(c, variables) == [constraint |-> c, variables |-> variables]

\* position(|cv| cv.constraint == self && cv.variables == variables), with
\* PartialEq on constraints taken as equality of their fields
EntryPosition(list, c, variables) == Position(list, ConstraintVariable(c, variables))

\* what pre_process leaves behind: the maps and lists it was handed, and
\* whether it panicked on the way
PreResult(doms, cons, vcons, panic) ==
    [domains |-> doms, constraints |-> cons, vconstraints |-> vcons, panic |-> panic]

\* for index in to_removes { domain.values.remove(index); }
\* Vec::remove panics when index >= len
RECURSIVE RemoveIndices(_, _, _)
RemoveIndices(values, to_removes, k) ==
    IF k > Len(to_removes) THEN [values |-> values, panic |-> FALSE]
    ELSE IF to_removes[k] >= Len(values) THEN [values |-> values, panic |-> TRUE]
    ELSE RemoveIndices(RemoveAt(values, to_removes[k]), to_removes, k + 1)

\* to_removes of default_pre_process: the enumerate() index of every value
\* whose call with {variable: value} is Ok(false)
RECURSIVE DefaultToRemoves(_, _, _, _, _)
DefaultToRemoves(c, variables, doms, domain_values, i) ==
    IF i >= Len(domain_values) THEN <<>>
    ELSE LET value == domain_values[i + 1]
             asg == [v \in {variables[1]} |-> value]
             res == Call(c, variables, doms, asg, FALSE, <<>>).res
         IN (IF res = Ok(FALSE) THEN <<i>> ELSE <<>>)
            \o DefaultToRemoves(c, variables, doms, domain_values, i + 1)

\* default_pre_process from its removal loop on: `removed` is what the loop
\* over to_removes left of the variable's values
DefaultRemoveEntries(c, variables, doms, cons, vcons, removed) ==
    LET variable == variables[1]
        doms2 == [doms EXCEPT ![variable].values = removed.values]
        index == EntryPosition(cons, c, variables)
    IN IF removed.panic \/ index = -1 THEN PreResult(doms2, cons, vcons, TRUE)
       ELSE LET cons2 == RemoveAt(cons, index) IN
            IF variable \notin DOMAIN vcons
            THEN PreResult(doms2, cons2, vcons, TRUE)
            ELSE LET index_to_remove == EntryPosition(vcons[variable], c, variables)
                 IN IF index_to_remove = -1
                    THEN PreResult(doms2, cons2, vcons, TRUE)
                    ELSE PreResult(doms2, cons2,
                             [vcons EXCEPT ![variable] = RemoveAt(@, index_to_remove)],
                             FALSE)

DefaultPreProcess(c, variables, doms, cons, vcons) ==
    IF Len(variables) = 1
    THEN IF variables[1] \notin DOMAIN doms THEN PreResult(doms, cons, vcons, TRUE)
         ELSE DefaultRemoveEntries(c, variables, doms, cons, vcons,
                  RemoveIndices(doms[variables[1]].values,
                      DefaultToRemoves(c, variables, doms, doms[variables[1]].values, 0),
                      1))
    ELSE PreResult(doms, cons, vcons, FALSE)

\* to_removes of the overriding pre_process bodies: for every value that
\* fails the test, the position of its first occurrence
PositionsWhere(values, Reject(_)) ==
    LET Indexes == [i \in 1..Len(values) |-> i]
        Rejected(i) == Reject(values[i])
        picked == SelectSeq(Indexes, Rejected)
    IN [k \in 1..Len(picked) |-> Position(values, values[picked[k]])]

\* second half of MaxSumConstraint::pre_process and ExactSumConstraint::pre_process
RECURSIVE SumPreProcessLoop(_, _, _, _)
SumPreProcessLoop(pairs, i, doms, limit) ==
    IF i > Len(pairs) THEN [domains |-> doms, panic |-> FALSE]
    ELSE LET variable == pairs[i][1]
             multiplier == pairs[i][2]
         IN IF variable \in DOMAIN doms
            THEN LET Over(value) == value * multiplier > limit
                     to_removes == PositionsWhere(doms[variable].values, Over)
                     removed == RemoveIndices(doms[variable].values, to_removes, 1)
                     doms2 == [doms EXCEPT ![variable].values = removed.values]
                 IN IF removed.panic THEN [domains |-> doms2, panic |-> TRUE]
                    ELSE SumPreProcessLoop(pairs, i + 1, doms2, limit)
            ELSE SumPreProcessLoop(pairs, i + 1, doms, limit)

\* the override's own loop, entered with what default_pre_process left (d)
SumPreProcessOwn(c, variables, d, limit) ==
    IF d.panic THEN d
    ELSE LET r == SumPreProcessLoop(Pairs(variables, c.multipliers), 1, d.domains, limit)
         IN PreResult(r.domains, d.constraints, d.vconstraints, r.panic)

SumPreProcess(c, variables, doms, cons, vcons, limit) ==
    SumPreProcessOwn(c, variables,
                     DefaultPreProcess(c, variables, doms, cons, vcons), limit)

MaxSumPreProcess(c, variables, doms, cons, vcons) ==
    SumPreProcess(c, variables, doms, cons, vcons, c.max_value)

ExactSumPreProcess(c, variables, doms, cons, vcons) ==
    SumPreProcess(c, variables, doms, cons, vcons, c.exact_value)

\* the loop over variables of InSetConstraint::pre_process (member = TRUE:
\* drop the values outside the set) and NotInSetConstraint::pre_process
\* (member = FALSE: drop the values inside it)
RECURSIVE SetPreProcessLoop(_, _, _, _, _, _)
SetPreProcessLoop(c, variables, i, doms, vcons, member) ==
    IF i > Len(variables) THEN [domains |-> doms, vconstraints |-> vcons, panic |-> FALSE]
    ELSE LET variable == variables[i]
             Reject(value) == (value \in c.set) # member
             removed ==
                 IF variable \in DOMAIN doms
                 THEN RemoveIndices(doms[variable].values,
                                    PositionsWhere(doms[variable].values, Reject), 1)
                 ELSE [values |-> <<>>, panic |-> FALSE]
             doms2 == IF variable \in DOMAIN doms
                      THEN [doms EXCEPT ![variable].values = removed.values]
                      ELSE doms
         IN IF removed.panic \/ variable \notin DOMAIN vcons
            THEN [domains |-> doms2, vconstraints |-> vcons, panic |-> TRUE]
            ELSE LET to_remove == EntryPosition(vcons[variable], c, variables)
                     vcons2 == IF to_remove # -1
                               THEN [vcons EXCEPT ![variable] = RemoveAt(@, to_remove)]
                               ELSE vcons
                 IN SetPreProcessLoop(c, variables, i + 1, doms2, vcons2, member)

SetPreProcess(c, variables, doms, cons, vcons, member) ==
    LET r == SetPreProcessLoop(c, variables, 1, doms, vcons, member) IN
    IF r.panic THEN PreResult(r.domains, cons, r.vconstraints, TRUE)
    ELSE LET to_remove == EntryPosition(cons, c, variables)
         IN PreResult(r.domains,
                      IF to_remove # -1 THEN RemoveAt(cons, to_remove) ELSE cons,
                      r.vconstraints, FALSE)

InSetPreProcess(c, variables, doms, cons, vcons) ==
    SetPreProcess(c, variables, doms, cons, vcons, TRUE)

NotInSetPreProcess(c, variables, doms, cons, vcons) ==
    SetPreProcess(c, variables, doms, cons, vcons, FALSE)

\* dynamic dispatch of Constraint::pre_process: four constraints override
\* it, the others inherit the trait's default
PreProcess(c, variables, doms, cons, vcons) ==
    CASE c.kind = "MaxSum" -> MaxSumPreProcess(c, variables, doms, cons, vcons)
      [] c.kind = "ExactSum" -> ExactSumPreProcess(c, variables, doms, cons, vcons)
      [] c.kind = "InSet" -> InSetPreProcess(c, variables, doms, cons, vcons)
      [] c.kind = "NotInSet" -> NotInSetPreProcess(c, variables, doms, cons, vcons)
      [] OTHER -> DefaultPreProcess(c, variables, doms, cons, vcons)

-----------------------------------------------------------------------------
(* Inputs *)

\* further bounds: sum bounds are drawn from 0..MaxBound, the count n of
\* SomeInSet / SomeNotInSet from 0..MaxN
MaxBound == 2
MaxN == 2

NegValues == {-1}
Values == NegValues \cup (1..MaxVal)

\* the ascending sequence of a set of integers
RECURSIVE SortedSeq(_)
SortedSeq(S) ==
    IF S = {} THEN <<>>
    ELSE LET m == CHOOSE x \in S : \A y \in S : x <= y
         IN <<m>> \o SortedSeq(S \ {m})

\* variable lists a constraint is registered against
VarLists == {<<"X">>, <<"X", "Y">>, <<"X", "Y", "Z">>}

\* HashMap<&Variable, i32>: every partial map from variables to values
Assignments(vals) == UNION {[S -> vals] : S \in SUBSET Vars}

SumBounds == 0..MaxBound
MultiplierVecs == {<<2, -1, 1>>}
\* None, or one multiplier per variable of the list
MultiplierOptions(variables) ==
    {None} \cup {Some(SubSeq(m, 1, Len(variables))) : m \in MultiplierVecs}
Sets == {{1}, {1, 2}}
Counts == 0..MaxN

\* the search driver before solve() or solutions() is entered
NoSearch == [pc |-> "idle", mode |-> "solve", order |-> <<>>, stack |-> <<>>,
             solutions |-> <<>>]

NoOp == [name |-> "init", constraint |-> NoConstraint, variables |-> <<>>,
         forward_check |-> FALSE]
CallOp(c, variables, forward_check) ==
    [name |-> "call", constraint |-> c, variables |-> variables,
     forward_check |-> forward_check]
PreProcessOp(c, variables) ==
    [name |-> "pre_process", constraint |-> c, variables |-> variables,
     forward_check |-> FALSE]

Snapshot == [domains |-> domains, assignments |-> assignments,
             constraints |-> constraints, vconstraints |-> vconstraints]

-----------------------------------------------------------------------------
(* SpecDomain: one Domain under hide_value, push_state, pop_state and      *)
(* reset_state                                                             *)

NoSnap == [live |-> {}, hid |-> {}, states |-> <<>>, hides |-> 0, pure |-> FALSE]
DomOp(name, had, snap) == [op |-> name, had |-> had, snap |-> snap]

EngineIdle ==
    /\ domains = [v \in Vars |-> NewDomain(<<>>)]
    /\ assignments = <<>>
    /\ constraints = <<>>
    /\ vconstraints = [v \in Vars |-> <<>>]
    /\ pre = Snapshot
    /\ op = NoOp
    /\ result = "none"
    /\ trace = NoTrace
    /\ search = NoSearch

DomainIdle ==
    /\ dom = NewDomain(<<>>)
    /\ snaps = <<>>
    /\ dlast = DomOp("new", FALSE, NoSnap)
    /\ dpanic = FALSE

InitDomain ==
    /\ dom \in {NewDomain(set) : set \in DupFreeSeqs(1..(MaxVal + 1))}
    /\ snaps = <<>>
    /\ dlast = DomOp("new", FALSE, NoSnap)
    /\ dpanic = FALSE
    /\ EngineIdle

DomHideValue ==
    /\ ~dpanic
    /\ \E value \in Range(dom.values) :
          /\ dom' = HideValue(dom, value)
          /\ snaps' = [k \in 1..Len(snaps) |->
                          IF snaps[k].pure THEN [snaps[k] EXCEPT !.hides = @ + 1]
                          ELSE snaps[k]]
          /\ dlast' = DomOp("hide_value", FALSE, NoSnap)
    /\ UNCHANGED <<dpanic, engineVars>>

DomPushState ==
    /\ ~dpanic
    /\ Len(dom.states) < MaxDepth
    /\ dom' = PushState(dom)
    /\ snaps' = Append([k \in 1..Len(snaps) |-> [snaps[k] EXCEPT !.pure = FALSE]],
                       [live |-> Range(dom.values), hid |-> Range(dom.hidden),
                        states |-> dom.states, hides |-> 0, pure |-> TRUE])
    /\ dlast' = DomOp("push_state", FALSE, NoSnap)
    /\ UNCHANGED <<dpanic, engineVars>>

DomPopState ==
    /\ ~dpanic
    /\ LET r == PopState(dom) IN
          /\ dom' = r.d
          /\ dpanic' = r.panic
    /\ dlast' = IF Len(snaps) > 0
                THEN DomOp("pop_state", TRUE, snaps[Len(snaps)])
                ELSE DomOp("pop_state", FALSE, NoSnap)
    /\ snaps' = IF Len(snaps) > 0 THEN SubSeq(snaps, 1, Len(snaps) - 1) ELSE snaps
    /\ UNCHANGED engineVars

DomResetState ==
    /\ ~dpanic
    /\ dom' = ResetState(dom)
    /\ snaps' = <<>>
    /\ dlast' = DomOp("reset_state", FALSE, NoSnap)
    /\ UNCHANGED <<dpanic, engineVars>>

NextDomain == DomHideValue \/ DomPushState \/ DomPopState \/ DomResetState

SpecDomain == InitDomain /\ [][NextDomain]_vars

\* C1: after a pop_state that matches a push_state with only hide_value
\* calls (any number of them) in between, pop_state has completed, the live
\* and hidden sets are those of just before the push_state, and the
\* checkpoint stack is back to its earlier content.
C1_CheckpointSymmetry ==
    (dlast.op = "pop_state" /\ dlast.had /\ dlast.snap.pure) =>
        /\ ~dpanic
        /\ Range(dom.values) = dlast.snap.live
        /\ Range(dom.hidden) = dlast.snap.hid
        /\ dom.states = dlast.snap.states

\* C18: along every sequence of hide_value (on live values), push_state,
\* pop_state and reset_state, nested checkpoints included, the live and
\* hidden sequences are disjoint and duplicate-free, every operation keeps
\* their union (the set the Domain was built from), and a pop_state of a
\* checkpoint completes and leaves live and hidden as they were when that
\* checkpoint was pushed: what was hidden since is live again, what was
\* hidden before stays hidden.
C18_DomainInvariant ==
    /\ [](/\ Range(dom.values) \cap Range(dom.hidden) = {}
          /\ Cardinality(Range(dom.values)) = Len(dom.values)
          /\ Cardinality(Range(dom.hidden)) = Len(dom.hidden)
          /\ (dlast.op = "pop_state" /\ dlast.had) =>
                /\ ~dpanic
                /\ Range(dom.values) = dlast.snap.live
                /\ Range(dom.hidden) = dlast.snap.hid)
    /\ [][Range(dom'.values) \cup Range(dom'.hidden)
            = Range(dom.values) \cup Range(dom.hidden)]_vars

-----------------------------------------------------------------------------
(* SpecCall: Constraint::call of every built-in constraint, on domains and *)
(* assignments drawn from the bounded sets above                           *)

\* Every assignment; a variable without one has any domain over Values
\* (the empty one included), a variable with one has its whole domain.
InitCall ==
    /\ assignments \in Assignments(Values)
    /\ domains \in [Vars -> {NewDomain(SortedSeq(S)) : S \in SUBSET Values}]
    /\ \A v \in DOMAIN assignments : domains[v] = NewDomain(SortedSeq(Values))
    /\ constraints = <<>>
    /\ vconstraints = [v \in Vars |-> <<>>]
    /\ pre = Snapshot
    /\ op = NoOp
    /\ result = "none"
    /\ trace = NoTrace
    /\ search = NoSearch
    /\ DomainIdle

DoCall(c, variables, forward_check, keys) ==
    /\ op.name = "init"
    /\ LET r == Call(c, variables, domains, assignments, forward_check, keys) IN
          /\ domains' = r.domains
          /\ assignments' = r.assignments
          /\ result' = r.res
          /\ trace' = r.trace
          /\ UNCHANGED search
    /\ pre' = Snapshot
    /\ op' = CallOp(c, variables, forward_check)
    /\ UNCHANGED <<constraints, vconstraints, domVars>>

CallFunction ==
    \E function \in Functions, assigned \in BOOLEAN,
       variables \in VarLists, forward_check \in BOOLEAN :
        DoCall(FunctionConstraint(function, assigned), variables, forward_check, <<>>)

CallAllDifferent ==
    \E variables \in VarLists, forward_check \in BOOLEAN :
        \E keys \in Perms(AllDifferentKeys(variables, assignments)) :
            DoCall(AllDifferentConstraint, variables, forward_check, keys)

CallAllEqual ==
    \E variables \in VarLists, forward_check \in BOOLEAN :
        DoCall(AllEqualConstraint, variables, forward_check, <<>>)

CallMaxSum ==
    \E variables \in VarLists, forward_check \in BOOLEAN, max_value \in SumBounds :
        \E multipliers \in MultiplierOptions(variables) :
            DoCall(MaxSumConstraint(max_value, multipliers), variables, forward_check, <<>>)

CallExactSum ==
    \E variables \in VarLists, forward_check \in BOOLEAN, exact_value \in SumBounds :
        \E multipliers \in MultiplierOptions(variables) :
            DoCall(ExactSumConstraint(exact_value, multipliers), variables,
                   forward_check, <<>>)

CallMinSum ==
    \E variables \in VarLists, forward_check \in BOOLEAN, min_value \in SumBounds :
        \E multipliers \in MultiplierOptions(variables) :
            DoCall(MinSumConstraint(min_value, multipliers), variables, forward_check, <<>>)

CallInSet ==
    \E variables \in VarLists, forward_check \in BOOLEAN, set \in Sets :
        DoCall(InSetConstraint(set), variables, forward_check, <<>>)

CallNotInSet ==
    \E variables \in VarLists, forward_check \in BOOLEAN, set \in Sets :
        DoCall(NotInSetConstraint(set), variables, forward_check, <<>>)

CallSomeInSet ==
    \E variables \in VarLists, forward_check \in BOOLEAN, set \in Sets,
       n \in Counts, exact \in BOOLEAN :
        DoCall(SomeInSetConstraint(set, n, exact), variables, forward_check, <<>>)

CallSomeNotInSet ==
    \E variables \in VarLists, forward_check \in BOOLEAN, set \in Sets,
       n \in Counts, exact \in BOOLEAN :
        DoCall(SomeNotInSetConstraint(set, n, exact), variables, forward_check, <<>>)

\* SpecCall: the function-backed, AllDifferent, AllEqual, InSet and NotInSet
\* constraints
NextCall ==
    \/ CallFunction
    \/ CallAllDifferent
    \/ CallAllEqual
    \/ CallInSet
    \/ CallNotInSet

SpecCall == InitCall /\ [][NextCall]_vars

\* SpecSum: the bounded-sum family
NextSum == CallMaxSum \/ CallExactSum \/ CallMinSum

SpecSum == InitCall /\ [][NextSum]_vars

\* SpecSome: SomeInSet and SomeNotInSet
NextSome == CallSomeInSet \/ CallSomeNotInSet

SpecSome == InitCall /\ [][NextSome]_vars

\* SpecAllEqual32: AllEqualConstraint::call on values that include i32::MIN
Values32 == {I32_MIN} \cup (1..MaxVal)

InitAllEqual32 ==
    /\ assignments \in Assignments(Values32)
    /\ domains \in [Vars -> {NewDomain(SortedSeq(S)) : S \in SUBSET Values32}]
    /\ \A v \in DOMAIN assignments : domains[v] = NewDomain(SortedSeq(Values32))
    /\ constraints = <<>>
    /\ vconstraints = [v \in Vars |-> <<>>]
    /\ pre = Snapshot
    /\ op = NoOp
    /\ result = "none"
    /\ trace = NoTrace
    /\ search = NoSearch
    /\ DomainIdle

SpecAllEqual32 == InitAllEqual32 /\ [][CallAllEqual]_vars

-----------------------------------------------------------------------------
(* SpecPre: Constraint::pre_process on a registry of one constraint under  *)
(* test and one bystander                                                  *)

PreVarLists == {<<"X">>, <<"X", "Y">>}

PreConstraints ==
    {InSetConstraint(set) : set \in Sets}
    \cup {NotInSetConstraint(set) : set \in Sets}
    \cup {SomeInSetConstraint(set, 1, TRUE) : set \in Sets}
    \cup {MinSumConstraint(b, None) : b \in SumBounds}
    \cup {MaxSumConstraint(b, m) :
               b \in SumBounds, m \in MultiplierOptions(<<"X", "Y">>)}
    \cup {ExactSumConstraint(b, m) :
               b \in SumBounds, m \in MultiplierOptions(<<"X", "Y">>)}
    \cup {FunctionConstraint("checked_sum", FALSE), AllDifferentConstraint,
          AllEqualConstraint}

Bystander == ConstraintVariable(AllDifferentConstraint, <<"X", "Y", "Z">>)

\* the per-variable index add_constraint builds: for each variable, the
\* entries of the global list that mention it, in registration order
IndexOf(cons, v) ==
    LET Mentions(cv) == Contains(cv.variables, v)
    IN SelectSeq(cons, Mentions)

\* the registry as add_constraint leaves it; X's domain is any duplicate-free
\* Vec in any order, Y's any sorted one, Z's the whole value range
InitPre ==
    /\ \E c \in PreConstraints, variables \in PreVarLists :
          LET cv == ConstraintVariable(c, variables)
          IN constraints \in {<<cv>>, <<cv, Bystander>>, <<Bystander, cv>>}
    /\ vconstraints = [v \in Vars |-> IndexOf(constraints, v)]
    /\ \E xs \in DupFreeSeqs(Values), ys \in SUBSET Values :
          domains = [v \in Vars |->
                        CASE v = "X" -> NewDomain(xs)
                          [] v = "Y" -> NewDomain(SortedSeq(ys))
                          [] OTHER -> NewDomain(SortedSeq(Values))]
    /\ assignments = <<>>
    /\ pre = Snapshot
    /\ op = NoOp
    /\ result = "none"
    /\ trace = NoTrace
    /\ search = NoSearch
    /\ DomainIdle

\* pre_process of the i-th entry of the global list (0-based)
DoPreProcess(i) ==
    /\ result # "Panic"
    /\ \E cv \in {constraints[i + 1]} :
         \E r \in {PreProcess(cv.constraint, cv.variables, domains, constraints,
                              vconstraints)} :
          /\ domains' = r.domains
          /\ constraints' = r.constraints
          /\ vconstraints' = r.vconstraints
          /\ result' = IF r.panic THEN "Panic" ELSE "Done"
          /\ op' = PreProcessOp(cv.constraint, cv.variables)
    /\ pre' = Snapshot
    /\ UNCHANGED <<assignments, trace, search, domVars>>

Overriding == {"MaxSum", "ExactSum", "InSet", "NotInSet"}

PreProcessOf(kind) ==
    \E i \in 0..(Len(constraints) - 1) :
        /\ constraints[i + 1].constraint.kind = kind
        /\ DoPreProcess(i)

PreProcessInSet == PreProcessOf("InSet")
PreProcessNotInSet == PreProcessOf("NotInSet")
PreProcessMaxSum == PreProcessOf("MaxSum")
PreProcessExactSum == PreProcessOf("ExactSum")
\* the constraints that inherit Constraint::pre_process
PreProcessDefault ==
    \E i \in 0..(Len(constraints) - 1) :
        /\ constraints[i + 1].constraint.kind \notin Overriding
        /\ DoPreProcess(i)

NextPre ==
    \/ PreProcessInSet
    \/ PreProcessNotInSet
    \/ PreProcessMaxSum
    \/ PreProcessExactSum
    \/ PreProcessDefault

SpecPre == InitPre /\ [][NextPre]_vars

-----------------------------------------------------------------------------
(* SpecSearch: the search driver of spec.md 4.4 (Problem / Solver, which   *)
(* src/src/problem.rs declares and does not implement) over the Domain and *)
(* Constraint operations above, on the problem X, Y, Z in {1, 2, 3} with   *)
(* AllDifferent(X, Y, Z) and ExactSum(6, None)                             *)

SearchValues == {1, 2, 3}
SearchVariables == <<"X", "Y", "Z">>
SearchConstraints ==
    {<<ConstraintVariable(AllDifferentConstraint, SearchVariables),
       ConstraintVariable(ExactSumConstraint(6, None), SearchVariables)>>,
     <<ConstraintVariable(ExactSumConstraint(6, None), SearchVariables),
       ConstraintVariable(AllDifferentConstraint, SearchVariables)>>}

\* push_state / pop_state / reset_state on the domains of the variables in S
PushAll(doms, S) ==
    [v \in DOMAIN doms |-> IF v \in S THEN PushState(doms[v]) ELSE doms[v]]
PopAll(doms, S) ==
    [domains |-> [v \in DOMAIN doms |->
                     IF v \in S THEN PopState(doms[v]).d ELSE doms[v]],
     panic |-> \E v \in S \cap DOMAIN doms : PopState(doms[v]).panic]
ResetAll(doms) == [v \in DOMAIN doms |-> ResetState(doms[v])]

\* step 1: pre_process on every registered constraint, in registration order
RECURSIVE PreProcessAll(_, _, _)
PreProcessAll(entries, i, r) ==
    IF i > Len(entries) \/ r.panic THEN r
    ELSE PreProcessAll(entries, i + 1,
             PreProcess(entries[i].constraint, entries[i].variables,
                        r.domains, r.constraints, r.vconstraints))

\* step 3: call (forward_check = true) on every constraint registered
\* against the variable, up to the first that does not return Ok(true)
RECURSIVE CallAll(_, _, _, _, _)
CallAll(entries, i, doms, asg, keys) ==
    IF i > Len(entries) THEN CallResult(Ok(TRUE), doms, asg)
    ELSE LET r == Call(entries[i].constraint, entries[i].variables, doms, asg,
                       TRUE, keys)
         IN IF r.res = Ok(TRUE)
            THEN CallAll(entries, i + 1, r.domains, r.assignments, keys)
            ELSE r

\* step 2: the next unassigned variable in the driver's fixed order
RECURSIVE NextVariable(_, _, _)
NextVariable(order, i, asg) ==
    IF order[i] \notin DOMAIN asg THEN order[i]
    ELSE NextVariable(order, i + 1, asg)

Top == search.stack[Len(search.stack)]
WithTop(f) == [search.stack EXCEPT ![Len(search.stack)] = f]
Unassigned(asg) == Vars \ DOMAIN asg

InitSearch ==
    /\ constraints \in SearchConstraints
    /\ vconstraints = [v \in Vars |-> IndexOf(constraints, v)]
    /\ \E set \in Perms(SearchValues) : domains = [v \in Vars |-> NewDomain(set)]
    /\ assignments = <<>>
    /\ \E mode \in {"solve", "solutions"}, order \in Perms(Vars) :
          search = [NoSearch EXCEPT !.mode = mode, !.order = order]
    /\ pre = Snapshot
    /\ op = NoOp
    /\ result = "none"
    /\ trace = NoTrace
    /\ DomainIdle

\* step 1: reset every domain, then preprocess; an empty domain ends the search
SearchStart ==
    /\ search.pc = "idle"
    /\ \E r \in {PreProcessAll(constraints, 1,
                     PreResult(ResetAll(domains), constraints, vconstraints, FALSE))} :
          /\ domains' = r.domains
          /\ constraints' = r.constraints
          /\ vconstraints' = r.vconstraints
          /\ search' = [search EXCEPT !.pc =
                           IF r.panic THEN "panic"
                           ELSE IF \E v \in Vars : Len(r.domains[v].values) = 0
                           THEN "done" ELSE "choose"]
    /\ UNCHANGED <<assignments, pre, op, result, trace, domVars>>

\* steps 2 and 3: choose the next variable, push a checkpoint on its domain
\* and open a frame over its live values in domain order
ChooseVariable ==
    /\ search.pc = "choose"
    /\ Unassigned(assignments) # {}
    /\ \E variable \in {NextVariable(search.order, 1, assignments)} :
          /\ domains' = PushAll(domains, {variable})
          /\ search' = [search EXCEPT
                           !.pc = "try",
                           !.stack = Append(@, [variable |-> variable,
                                                values |-> domains[variable].values,
                                                i |-> 0])]
    /\ UNCHANGED <<assignments, constraints, vconstraints, pre, op, result, trace,
                   domVars>>

\* step 5: every variable is assigned and every constraint returned true
YieldSolution ==
    /\ search.pc = "choose"
    /\ Unassigned(assignments) = {}
    /\ search' = [search EXCEPT
                     !.solutions = Append(@, assignments),
                     !.pc = IF search.mode = "solve" THEN "done" ELSE "backtrack"]
    /\ UNCHANGED <<domains, assignments, constraints, vconstraints, pre, op, result,
                   trace, domVars>>

\* step 3 for one candidate value: assign it, checkpoint the domains of the
\* variables still unassigned, call the constraints of the variable; on
\* Ok(false) undo the pruning and move to the next value, on Err abort
TryValue ==
    /\ search.pc = "try"
    /\ Top.i < Len(Top.values)
    /\ \E asg \in {Insert(assignments, Top.variable, Top.values[Top.i + 1])} :
       \E keys \in Perms({asg[v] : v \in DOMAIN asg}) :
       \E r \in {CallAll(vconstraints[Top.variable], 1,
                         PushAll(domains, Unassigned(asg)), asg, keys)} :
       \E undone \in {PopAll(r.domains, Unassigned(asg))} :
          /\ assignments' = r.assignments
          /\ domains' = IF r.res = Ok(FALSE) THEN undone.domains ELSE r.domains
          /\ search' = [search EXCEPT
                           !.pc = IF r.res = Ok(TRUE) THEN "choose"
                                  ELSE IF r.res = Err THEN "error"
                                  ELSE IF undone.panic THEN "panic" ELSE "try",
                           !.stack = IF r.res = Ok(FALSE)
                                     THEN WithTop([Top EXCEPT !.i = @ + 1])
                                     ELSE @]
    /\ UNCHANGED <<constraints, vconstraints, pre, op, result, trace, domVars>>

\* step 4: the candidates are exhausted: remove the tentative assignment,
\* pop the frame's checkpoint and report upward
Exhaust ==
    /\ search.pc = "try"
    /\ Top.i >= Len(Top.values)
    /\ \E popped \in {PopAll(domains, {Top.variable})} :
          /\ domains' = popped.domains
          /\ search' = [search EXCEPT
                           !.stack = SubSeq(@, 1, Len(@) - 1),
                           !.pc = IF popped.panic THEN "panic"
                                  ELSE IF Len(search.stack) = 1 THEN "done"
                                  ELSE "backtrack"]
    /\ assignments' = Remove(assignments, Top.variable)
    /\ UNCHANGED <<constraints, vconstraints, pre, op, result, trace, domVars>>

\* back in the parent frame (after a failure below, or after a solution when
\* enumerating): undo the pruning of the value tried and move to the next
Backtrack ==
    /\ search.pc = "backtrack"
    /\ \E undone \in {PopAll(domains, Unassigned(assignments))} :
          /\ domains' = undone.domains
          /\ search' = [search EXCEPT
                           !.pc = IF undone.panic THEN "panic" ELSE "try",
                           !.stack = WithTop([Top EXCEPT !.i = @ + 1])]
    /\ UNCHANGED <<assignments, constraints, vconstraints, pre, op, result, trace,
                   domVars>>

NextSearch ==
    \/ SearchStart
    \/ ChooseVariable
    \/ YieldSolution
    \/ TryValue
    \/ Exhaust
    \/ Backtrack

SpecSearch == InitSearch /\ [][NextSearch]_vars

-----------------------------------------------------------------------------
(* Properties of Constraint::call.  They read the last operation (op), the *)
(* state it started from (pre) and the state and result it left.           *)

IsCall(kinds) == op.name = "call" /\ op.constraint.kind \in kinds

\* the variables of the last operation's list, and those of them that had
\* (or had not) an assignment when it started
OpVars == Range(op.variables)
OpUnassigned == OpVars \ DOMAIN pre.assignments
OpAssigned == OpVars \cap DOMAIN pre.assignments

Live(d) == Range(d.values)

\* the multiplier-weighted sum of the assigned values of the list
WeightedSum(variables, multipliers, asg) ==
    SeqSum([i \in 1..Len(variables) |->
               IF variables[i] \in DOMAIN asg
               THEN asg[variables[i]] *
                    (IF IsSome(multipliers) THEN Unwrap(multipliers)[i] ELSE 1)
               ELSE 0])

\* C3: whenever call with forward_check = true of a built-in constraint
\* hides values and leaves the live domain of an unassigned variable of its
\* list empty, it returns Ok(false).
C3_PrunedToEmptyIsViolation ==
    (/\ IsCall({"AllDifferent", "AllEqual", "MaxSum", "ExactSum", "SomeInSet",
                "SomeNotInSet", "Function"})
     /\ op.forward_check
     /\ \E v \in OpUnassigned :
           /\ v \notin DOMAIN assignments
           /\ Live(pre.domains[v]) # {}
           /\ Live(domains[v]) = {})
    => result = Ok(FALSE)

\* C5: with forward_check = false, MaxSum returns Ok(true) exactly when the
\* weighted sum of the assigned values is <= b; ExactSum returns Ok(true)
\* exactly when (some variable is unassigned and the sum is <= b) or (all are
\* assigned and the sum equals b); the two verdicts agree on every partial
\* assignment and differ on a full one exactly when the sum is below b.
C5_ExactSumVersusMaxSum ==
    (IsCall({"MaxSum", "ExactSum"}) /\ ~op.forward_check) =>
        LET c == op.constraint
            b == IF c.kind = "MaxSum" THEN c.max_value ELSE c.exact_value
            sum == WeightedSum(op.variables, c.multipliers, pre.assignments)
            partial == OpUnassigned # {}
            max_res == Call(MaxSumConstraint(b, c.multipliers), op.variables,
                            pre.domains, pre.assignments, FALSE, <<>>).res
            exact_res == Call(ExactSumConstraint(b, c.multipliers), op.variables,
                              pre.domains, pre.assignments, FALSE, <<>>).res
        IN /\ c.kind = "MaxSum" => result = Ok(sum <= b)
           /\ c.kind = "ExactSum" =>
                 result = Ok((partial /\ sum <= b) \/ (~partial /\ sum = b))
           /\ partial => max_res = exact_res
           /\ ~partial => ((max_res # exact_res) <=> sum < b)
           /\ domains = pre.domains
           /\ assignments = pre.assignments

\* C5 witness: ExactSum rejects a full assignment whose weighted sum is
\* strictly below the target, which MaxSum accepts
C5_Witness ==
    /\ IsCall({"ExactSum"}) /\ ~op.forward_check
    /\ IsSome(op.constraint.multipliers)
    /\ Len(op.variables) >= 2
    /\ OpUnassigned = {}
    /\ WeightedSum(op.variables, op.constraint.multipliers, pre.assignments)
          < op.constraint.exact_value
    /\ result = Ok(FALSE)

\* the values held by the assigned variables of the list
UsedValues == {pre.assignments[v] : v \in OpAssigned}

\* two assigned variables of the list hold the same value
RepeatedValue ==
    \E v, w \in OpAssigned : v # w /\ pre.assignments[v] = pre.assignments[w]

\* C6 as stated: AllDifferent returns Ok(false) when two assigned variables
\* hold the same value; otherwise, with forward_check = true, when it returns
\* Ok(true) no unassigned variable's live domain contains a value assigned
\* to a variable of the list and none is empty.
C6_AllDifferentAsStated ==
    IsCall({"AllDifferent"}) =>
        /\ RepeatedValue => result = Ok(FALSE)
        /\ (~RepeatedValue /\ op.forward_check /\ result = Ok(TRUE)) =>
              \A v \in OpUnassigned :
                  /\ Live(domains[v]) \cap UsedValues = {}
                  /\ Live(domains[v]) # {}

\* C6 amended: AllDifferent returns Ok(false) when two assigned variables
\* hold the same value; otherwise, with forward_check = true, it returns
\* Ok(false) when hiding the used values empties the live domain of an
\* unassigned variable, and when it returns Ok(true) the live domain of
\* every unassigned variable is its earlier live domain minus the used
\* values, and none that was non-empty before the call is empty.
C6_AllDifferent ==
    IsCall({"AllDifferent"}) =>
        /\ RepeatedValue => result = Ok(FALSE)
        /\ (~RepeatedValue /\ op.forward_check) =>
              /\ (\E v \in OpUnassigned :
                     /\ Live(pre.domains[v]) # {}
                     /\ Live(pre.domains[v]) \subseteq UsedValues)
                 => result = Ok(FALSE)
              /\ result = Ok(TRUE) =>
                    \A v \in OpUnassigned :
                        /\ Live(domains[v]) = Live(pre.domains[v]) \ UsedValues
                        /\ Live(pre.domains[v]) # {} => Live(domains[v]) # {}

\* C6 witness: a forward-checking call that hid a used value from an
\* unassigned variable and returned Ok(true)
C6_Witness ==
    /\ IsCall({"AllDifferent"}) /\ op.forward_check
    /\ result = Ok(TRUE)
    /\ \E v \in OpUnassigned :
          /\ Live(pre.domains[v]) \cap UsedValues # {}
          /\ Live(domains[v]) # {}
          /\ Live(domains[v]) \cap UsedValues = {}

\* C7: AllEqual returns Ok(false) whenever two assigned variables of its
\* list hold different 32-bit values; with forward_check = true, once some
\* variable is assigned s (and no two differ), it returns Ok(false) if s is
\* not live in some unassigned variable's domain and otherwise leaves
\* exactly {s} live in every unassigned variable's domain.
C7_AllEqual ==
    IsCall({"AllEqual"}) =>
        /\ (\E v, w \in OpAssigned : pre.assignments[v] # pre.assignments[w])
              => result = Ok(FALSE)
        /\ \A s \in UsedValues :
              (op.forward_check /\ UsedValues = {s}) =>
                  IF \E v \in OpUnassigned : s \notin Live(pre.domains[v])
                  THEN result = Ok(FALSE)
                  ELSE \A v \in OpUnassigned : Live(domains[v]) = {s}

\* C8: SomeInSet / SomeNotInSet.  When some variable is unassigned, the
\* partial check passes, forward_check = true and n - found equals the
\* number of unassigned variables, every unassigned variable's live domain
\* afterwards holds only values inside (SomeInSet) or outside (SomeNotInSet)
\* the set; when n - found differs from that number, or forward_check =
\* false, no domain is changed; when every variable is assigned the result
\* is Ok(true) exactly when found = n (exact) or found >= n (not exact).
C8_SomeSetForcing ==
    IsCall({"SomeInSet", "SomeNotInSet"}) =>
        LET c == op.constraint
            member == c.kind = "SomeInSet"
            missing == Cardinality(OpUnassigned)
            found == Cardinality({v \in OpAssigned :
                                     (pre.assignments[v] \in c.set) = member})
            passes == IF c.exact THEN found <= c.n /\ c.n <= missing + found
                      ELSE c.n <= missing + found
        IN /\ (missing # 0 /\ passes /\ op.forward_check /\ c.n - found = missing) =>
                 \A v \in OpUnassigned :
                     Live(domains[v]) =
                         {x \in Live(pre.domains[v]) : (x \in c.set) = member}
           /\ (c.n - found # missing \/ ~op.forward_check) => domains = pre.domains
           /\ missing = 0 =>
                 result = Ok(IF c.exact THEN found = c.n ELSE found >= c.n)
           /\ assignments = pre.assignments

\* C8 witness: a forcing call that removed out-of-set values
C8_Witness ==
    /\ IsCall({"SomeInSet"}) /\ op.forward_check
    /\ OpAssigned # {}
    /\ op.constraint.n
          - Cardinality({v \in OpAssigned : pre.assignments[v] \in op.constraint.set})
          = Cardinality(OpUnassigned)
    /\ \E v \in OpUnassigned :
          /\ Live(domains[v]) # Live(pre.domains[v])
          /\ Live(domains[v]) \subseteq op.constraint.set

\* C9: MinSum returns Ok(true) while any variable of its list is unassigned,
\* whatever the assigned values and the forward_check flag; when all are
\* assigned it returns Ok(true) exactly when the weighted sum is >= the
\* bound; it never changes a domain or the assignment mapping.
C9_MinSumOnlyOnFullAssignments ==
    IsCall({"MinSum"}) =>
        LET c == op.constraint
            sum == WeightedSum(op.variables, c.multipliers, pre.assignments)
        IN /\ OpUnassigned # {} => result = Ok(TRUE)
           /\ OpUnassigned = {} => result = Ok(sum >= c.min_value)
           /\ domains = pre.domains
           /\ assignments = pre.assignments

\* C9 witness: a forward-checking call on a partial assignment whose sum is
\* below the bound, accepted all the same
C9_Witness ==
    /\ IsCall({"MinSum"}) /\ op.forward_check
    /\ OpAssigned # {} /\ OpUnassigned # {}
    /\ WeightedSum(op.variables, op.constraint.multipliers, pre.assignments)
          < op.constraint.min_value
    /\ \E v \in OpUnassigned : Live(pre.domains[v]) # {}
    /\ result = Ok(TRUE)

\* C10: call on an InSetConstraint or a NotInSetConstraint yields Err for
\* every variable list, domain state, assignment and forward_check flag, and
\* changes neither domains nor assignments.
C10_SetMembershipCallIsFatal ==
    IsCall({"InSet", "NotInSet"}) =>
        /\ result = Err
        /\ domains = pre.domains
        /\ assignments = pre.assignments

\* C10 witness: InSet called with forward checking on a partial assignment
C10_Witness ==
    /\ IsCall({"InSet"}) /\ op.forward_check
    /\ OpAssigned # {} /\ OpUnassigned # {}
    /\ result = Err

-----------------------------------------------------------------------------
(* Properties of Constraint::pre_process *)

IsPreProcess(kinds) == op.name = "pre_process" /\ op.constraint.kind \in kinds

\* the registry entry the last operation ran for
OpEntry == ConstraintVariable(op.constraint, op.variables)

\* a list of registry entries without the entry of the last operation
WithoutOpEntry(list) ==
    LET Other(cv) == cv # OpEntry
    IN SelectSeq(list, Other)

\* C2: after pre_process of an InSet (NotInSet) constraint with set S, the
\* live domain of every variable of its list is its earlier domain
\* intersected with S (minus S), and neither the global list nor any
\* per-variable index holds the entry any more.
C2_SetMembershipResolution ==
    IsPreProcess({"InSet", "NotInSet"}) =>
        /\ result = "Done"
        /\ \A v \in OpVars :
              Live(domains[v]) =
                  IF op.constraint.kind = "InSet"
                  THEN Live(pre.domains[v]) \cap op.constraint.set
                  ELSE Live(pre.domains[v]) \ op.constraint.set
        /\ ~Contains(constraints, OpEntry)
        /\ \A v \in Vars : ~Contains(vconstraints[v], OpEntry)

\* C4: default_pre_process for a constraint on exactly one variable x leaves
\* live exactly the values v of x for which call with {x = v} does not
\* return Ok(false), and removes the entry from the global list and from
\* the index of x, every other entry staying in place; for a constraint on
\* two or more variables it changes nothing.
C4_DefaultUnaryPreProcess ==
    (op.name = "pre_process" /\ op.constraint.kind \notin Overriding) =>
        IF Len(op.variables) = 1
        THEN LET x == op.variables[1]
                 Kept(v) == Call(op.constraint, op.variables, pre.domains,
                                 [w \in {x} |-> v], FALSE, <<>>).res # Ok(FALSE)
             IN /\ result = "Done"
                /\ Live(domains[x]) = {v \in Live(pre.domains[x]) : Kept(v)}
                /\ \A w \in Vars \ {x} : domains[w] = pre.domains[w]
                /\ constraints = WithoutOpEntry(pre.constraints)
                /\ vconstraints =
                      [pre.vconstraints EXCEPT ![x] = WithoutOpEntry(@)]
        ELSE /\ result = "Done"
             /\ domains = pre.domains
             /\ constraints = pre.constraints
             /\ vconstraints = pre.vconstraints

\* C16: after pre_process of a MaxSum or ExactSum constraint with bound b,
\* the live domain of every variable of its list is its earlier domain
\* minus the values whose contribution alone (the value times the
\* variable's multiplier, or the value without multipliers) exceeds b,
\* whatever the domain and however many such values it holds; on a list of
\* one variable the default unary reduction is applied as well: the values
\* call rejects are gone too and the registry entry is removed.
C16_BoundedSumPreProcess ==
    IsPreProcess({"MaxSum", "ExactSum"}) =>
        LET c == op.constraint
            b == IF c.kind = "MaxSum" THEN c.max_value ELSE c.exact_value
            Multiplier(i) ==
                IF IsSome(c.multipliers) THEN Unwrap(c.multipliers)[i] ELSE 1
            unary == Len(op.variables) = 1
            Kept(v) == Call(c, op.variables, pre.domains,
                            [w \in {op.variables[1]} |-> v], FALSE, <<>>).res
                          # Ok(FALSE)
        IN /\ result = "Done"
           /\ \A i \in 1..Len(op.variables) :
                 Live(domains[op.variables[i]]) =
                     {v \in Live(pre.domains[op.variables[i]]) :
                         ~(v * Multiplier(i) > b) /\ (unary => Kept(v))}
           /\ \A w \in Vars \ OpVars : domains[w] = pre.domains[w]
           /\ constraints =
                 IF unary THEN WithoutOpEntry(pre.constraints) ELSE pre.constraints
           /\ vconstraints =
                 IF unary
                 THEN [pre.vconstraints EXCEPT ![op.variables[1]] = WithoutOpEntry(@)]
                 ELSE pre.vconstraints

-----------------------------------------------------------------------------
(* Properties of FunctionConstraint::call and Constraint::forward_check.   *)
(* They also read the trace of the last call.                              *)

Hidden(d) == Range(d.hidden)

\* the tuple of the values assigned to the list before the call, in list order
OpParms == Parms(op.variables, 1, pre.assignments)

\* C11: whenever the user predicate returns an error on an evaluation made
\* while call runs, be it the direct evaluation or one made in a trial of
\* the forward-check helper for a candidate value, call returns Err, and the
\* candidate value is not hidden as a violation (Err already says it is not
\* kept as valid).
C11_PredicateFailureIsPropagated ==
    IsCall({"Function"}) =>
        \A i \in 1..Len(trace.evals) :
            trace.evals[i].res = Err =>
                /\ result = Err
                /\ LET t == trace.evals[i].trial
                   IN t # <<>> =>
                         (t[2] \in Hidden(domains[t[1]])
                             <=> t[2] \in Hidden(pre.domains[t[1]]))

\* C12 as stated: with some variable unassigned and forward_check = false,
\* call returns Ok(true) without consulting the predicate unless the
\* constraint was built with the assigned flag set; with every variable
\* assigned it returns the predicate's result on the tuple of the assigned
\* values in list order.
C12_FunctionOnPartialAsStated ==
    IsCall({"Function"}) =>
        /\ (OpUnassigned # {} /\ ~op.forward_check /\ ~op.constraint.assigned) =>
              (result = Ok(TRUE) /\ trace.evals = <<>>)
        /\ OpUnassigned = {} =>
              result = ApplyFunction(op.constraint.function, OpParms)

\* C12 amended: with some variable unassigned and forward_check = false,
\* call returns Ok(true) without consulting the predicate when the
\* constraint was built with the assigned flag set, and otherwise consults
\* the predicate once, on the tuple of the values assigned so far, and
\* returns its result; with every variable assigned it returns the
\* predicate's result on the tuple of the assigned values in list order.
C12_FunctionOnPartial ==
    IsCall({"Function"}) =>
        /\ (OpUnassigned # {} /\ ~op.forward_check) =>
              IF op.constraint.assigned
              THEN result = Ok(TRUE) /\ trace.evals = <<>>
              ELSE /\ result = ApplyFunction(op.constraint.function, OpParms)
                   /\ trace.evals = <<[parms |-> OpParms, res |-> result,
                                       trial |-> <<>>]>>
        /\ OpUnassigned = {} =>
              /\ result = ApplyFunction(op.constraint.function, OpParms)
              /\ Len(OpParms) = Len(op.variables)
              /\ \A i \in 1..Len(OpParms) : OpParms[i] = pre.assignments[op.variables[i]]
        /\ (OpUnassigned = {} \/ ~op.forward_check) =>
              (domains = pre.domains /\ assignments = pre.assignments)

\* C12 witness: a partial tuple the predicate would reject, accepted
\* unseen because the assigned flag is set
C12_Witness ==
    /\ IsCall({"Function"}) /\ ~op.forward_check /\ op.constraint.assigned
    /\ OpUnassigned # {} /\ OpAssigned # {}
    /\ ApplyFunction(op.constraint.function, OpParms) = Ok(FALSE)
    /\ result = Ok(TRUE)

\* the last call was a function-backed call with forward_check = true that
\* reached the forward-check helper with exactly one variable unassigned
HelperInvoked ==
    /\ IsCall({"Function"}) /\ op.forward_check
    /\ Cardinality(OpUnassigned) = 1
    /\ (op.constraint.assigned
           \/ ApplyFunction(op.constraint.function, OpParms) = Ok(TRUE))

\* C14: when exactly one variable u of the list is unassigned, the helper,
\* as invoked by a function-backed call with forward_check = true, calls
\* call once for each live value v of u, with u = v added to the assignments
\* as they are; afterwards the live domain of u holds exactly the values
\* whose call did not return Ok(false), and every other domain is unchanged.
C14_HelperPrunesLoneUnassigned ==
    HelperInvoked =>
        LET u == CHOOSE v \in OpUnassigned : TRUE
            live == pre.domains[u].values
            Trial(v) == Insert(pre.assignments, u, v)
            Fails(v) == Call(op.constraint, op.variables, pre.domains, Trial(v),
                             FALSE, <<>>).res = Ok(FALSE)
        IN /\ Len(trace.trials) = Len(live)
           /\ \A k \in 1..Len(trace.trials) :
                 /\ trace.trials[k].variable = u
                 /\ trace.trials[k].value = live[k]
                 /\ trace.trials[k].assignments = Trial(live[k])
           /\ Live(domains[u]) = {v \in Range(live) : ~Fails(v)}
           /\ \A w \in Vars \ {u} : domains[w] = pre.domains[w]

\* C15: after a function-backed call with forward_check = true on a list
\* with exactly one unassigned variable, hence after the forward-check
\* helper has returned, the assignment mapping is the one before the call:
\* the trial variable is absent and every assigned variable has its value.
C15_HelperRestoresAssignments ==
    HelperInvoked =>
        /\ assignments = pre.assignments
        /\ OpUnassigned \cap DOMAIN assignments = {}

-----------------------------------------------------------------------------
(* Soundness of pruning *)

\* the complete assignments of the list's variables that extend the
\* assignments before the operation with x = v and give every other
\* unassigned variable a value of its live domain
Extensions(x, v) ==
    {a \in [OpVars -> UNION {Live(pre.domains[w]) : w \in OpVars}
                          \cup {pre.assignments[w] : w \in OpAssigned}] :
        /\ a[x] = v
        /\ \A w \in OpAssigned : a[w] = pre.assignments[w]
        /\ \A w \in OpUnassigned : a[w] \in Live(pre.domains[w])}

\* call accepts the complete assignment
Satisfies(a) ==
    Call(op.constraint, op.variables, pre.domains, a, FALSE, <<>>).res = Ok(TRUE)

\* C17: call with forward_check = true hides a value v from the domain of an
\* unassigned variable x, and pre_process removes one, only if no complete
\* assignment that extends the current assignments with x = v, the other
\* unassigned variables taking values of their live domains, satisfies the
\* constraint; for MaxSum and ExactSum with values and multipliers of any
\* sign, and for AllDifferent, AllEqual, SomeInSet and SomeNotInSet.
C17_PruningIsSound ==
    ((IsCall({"MaxSum", "ExactSum", "AllDifferent", "AllEqual", "SomeInSet",
              "SomeNotInSet"}) /\ op.forward_check)
       \/ IsPreProcess({"MaxSum", "ExactSum"})) =>
        \A x \in OpUnassigned :
            \A v \in Live(pre.domains[x]) \ Live(domains[x]) :
                \A a \in Extensions(x, v) : ~Satisfies(a)

-----------------------------------------------------------------------------
(* Properties of the search driver *)

\* a complete assignment that uses each of the three values once
IsPermutation(a) == DOMAIN a = Vars /\ {a[v] : v \in Vars} = SearchValues

\* every registered constraint's call returns Ok(true) on the assignment
Accepted(a) ==
    \A i \in 1..Len(constraints), forward_check \in BOOLEAN :
        Call(constraints[i].constraint, constraints[i].variables, domains, a,
             forward_check, <<>>).res = Ok(TRUE)

\* C13: for X, Y, Z in {1, 2, 3} with AllDifferent(X, Y, Z) and
\* ExactSum(6, None), the search never fails, yields only permutations of
\* {1, 2, 3} and none twice; once it is done, solutions() has yielded all six
\* and solve() exactly one; and the complete assignments both constraints'
\* call accepts are exactly the six permutations.
C13_EndToEndSearch ==
    /\ search.pc \notin {"panic", "error"}
    /\ \A i \in 1..Len(search.solutions) : IsPermutation(search.solutions[i])
    /\ \A i, j \in 1..Len(search.solutions) :
          search.solutions[i] = search.solutions[j] => i = j
    /\ search.pc = "done" =>
          /\ Len(search.solutions) = IF search.mode = "solutions" THEN 6 ELSE 1
          /\ \A a \in [Vars -> SearchValues] : Accepted(a) <=> IsPermutation(a)

\* C13 witness: an enumeration that ran to its end and yielded six solutions
C13_Witness ==
    /\ search.pc = "done" /\ search.mode = "solutions"
    /\ Len(search.solutions) = 6
    /\ search.stack = <<>> /\ assignments = <<>>

====
